---- MODULE Spec2Model ----
(***************************************************************************)
(* Device-side command protocol engine of piconetcontrol                   *)
(* (GPIOControlServerBase / GPIOControlServerPicoW): the dispatcher, the    *)
(* connection handler, the pending pin resets, the status indicator and    *)
(* the run loop, as one state machine.                                      *)
(*                                                                         *)
(* JSON values are strings ("0", "1", "output", ...); int() and float()    *)
(* are the partial conversions IntOf / IsNum below.  A command is a        *)
(* function from field names to values.  Time is counted in whole seconds. *)
(***************************************************************************)
EXTENDS Bags, FiniteSets, Integers, Sequences, TLC

VARIABLES
    now,        \* the device clock (time(), asyncio's clock), in seconds
    pins,       \* GPIOControlServerPicoW.pins: set-up pin -> mode
    level,      \* the hardware level of every pin (machine.Pin.value)
    tasks,      \* bag of pending write_pin_after_timeout tasks
    timers,     \* bag of armed machine.Timer one-shots of _action_sleep
    resets,     \* bag of pending reset_after_timeout tasks
    conn,       \* per connection: the handle_client task (pc, end) with
                \* the chunks read, the responses written (each the number
                \* of the chunk it answers) and the responses flushed
    blink,      \* per connection: its blink_led_async task
    idle,       \* the __blink_led_infinite task
    event,      \* _event_continuous_blink (set = idle blinking enabled)
    led,        \* the status LED
    mainpc,     \* position of __main__ / run()
    last,       \* history: the chunk the latest step read and its outcome
    wrote,      \* history: per pin, the latest write_pin that changed it
    setorder,   \* the iteration order of a set of str in this process
    cli         \* the controller host's Client inside send_commands

vars == <<now, pins, level, tasks, timers, resets, conn, blink, idle, event,
          led, mainpc, last, wrote, setorder, cli>>

\* ---------------------------------------------------------------- bounds
MaxTime == 3          \* the clock stops advancing here (pin scenarios)
MaxBlinkTime == 1     \* the clock stops advancing here (indicator scenarios)
MaxTasks == 2         \* pending pin resets alive at once
MaxChunks == 1        \* chunks read on one connection (indicator scenarios)
MaxCmds == 5          \* chunks read on one connection (pin scenarios)
MaxTimers == 1        \* armed sleep timers alive at once
MaxBlinks == 1        \* blink cycles the model lets a connection's blink run
                      \* (n = 100000 in handle_client, counted here up to this)
MaxList == 3          \* commands in one send_commands call
MaxPollTime == 4      \* largest timeout given to poll_command_response
MaxDt == 2            \* largest interval given to poll_command_response
MaxRtt == 1           \* longest time one call of _send_single_command takes
MaxReads == 2         \* chunks each connection sends in the shared-device scenarios
MaxSched == 4         \* chunks the connection sends in the scheduling scenarios

PinIds == {1, 2}
Conns == {1, 2}

\* ------------------------------------------------------------ JSON values
NumStr == <<"0", "1", "2", "3", "4", "5", "6", "7", "8", "9">>

\* str(n) of a small natural number
StrOf(n) == IF n + 1 \in DOMAIN NumStr THEN NumStr[n + 1] ELSE "big"

IsNum(s) == \E i \in DOMAIN NumStr : NumStr[i] = s

\* int(s) / float(s) where the conversion succeeds
IntOf(s) == (CHOOSE i \in DOMAIN NumStr : NumStr[i] = s) - 1

Put(m, k, v) == (k :> v) @@ m

\* ------------------------------------------------------------- the device
Dev == [pins |-> pins, level |-> level, tasks |-> tasks, timers |-> timers,
        resets |-> resets]

Ok(dev, cmd, calls) ==
    [dev |-> dev, cmd |-> cmd, exc |-> "", msg |-> "", calls |-> calls]

Raise(dev, cmd, calls, exc, msg) ==
    [dev |-> dev, cmd |-> cmd, exc |-> exc, msg |-> msg, calls |-> calls]

\* the orders in which a process may iterate over a set of field names
\* (str hashes differ from process to process)
SetOrders == {"fwd", "rev"}

\* the field tuple in the order the set built from it is iterated
SetIter(fields) ==
    IF setorder = "rev"
    THEN [i \in 1..Len(fields) |-> fields[Len(fields) + 1 - i]]
    ELSE fields

\* a message that names only the first missing field
RECURSIVE JoinFirstMissing(_, _)
JoinFirstMissing(cmd, fields) ==
    IF fields = <<>> THEN ""
    ELSE IF Head(fields)[1] \in DOMAIN cmd
         THEN JoinFirstMissing(cmd, Tail(fields))
         ELSE Head(fields)[1]

\* ", ".join(missing_fields) for the missing fields iterated in this order
RECURSIVE JoinMissing(_, _)
JoinMissing(cmd, fields) ==
    IF fields = <<>> THEN ""
    ELSE LET rest == JoinMissing(cmd, Tail(fields))
             f == Head(fields)[1]
         IN IF f \in DOMAIN cmd THEN rest
            ELSE IF rest = "" THEN f ELSE f \o ", " \o rest

\* the first field whose conversion raises, 0 if none
RECURSIVE FirstBad(_, _, _)
FirstBad(cmd, fields, i) ==
    IF i > Len(fields) THEN 0
    ELSE IF fields[i][2] \in {"int", "float"} /\ ~IsNum(cmd[fields[i][1]])
         THEN i
         ELSE FirstBad(cmd, fields, i + 1)

\* _validate_command once the missing fields and the first failing
\* conversion are known: [exc, msg, vals]; vals[i] is the converted field i
Validated(cmd, fields, missing, bad) ==
    IF missing # ""
    THEN [exc |-> "ValueError",
          msg |-> "incomplete command, missing fields: " \o missing,
          vals |-> <<>>]
    ELSE IF bad # 0
         THEN [exc |-> "ValueError",
               msg |-> IF fields[bad][2] = "int"
                       THEN "invalid literal for int() with base 10: '"
                            \o cmd[fields[bad][1]] \o "'"
                       ELSE "could not convert string to float: '"
                            \o cmd[fields[bad][1]] \o "'",
               vals |-> <<>>]
         ELSE [exc |-> "", msg |-> "",
               vals |-> [i \in 1..Len(fields) |->
                           IF fields[i][2] = "str" THEN cmd[fields[i][1]]
                           ELSE IntOf(cmd[fields[i][1]])]]

ValidateCommand(cmd, fields) ==
    Validated(cmd, fields, JoinMissing(cmd, SetIter(fields)),
              FirstBad(cmd, fields, 1))

\* machine.Pin.value(x): any non-zero value drives the pin high
Drive(value) == IF value = 0 THEN 0 ELSE 1

\* GPIOControlServerPicoW.setup_pin: [exc, msg, dev]
HwSetupPin(dev, pin, mode) ==
    IF mode \notin {"input", "output"}
    THEN [exc |-> "KeyError", msg |-> "'" \o mode \o "'", dev |-> dev]
    ELSE IF pin \notin PinIds
    THEN [exc |-> "ValueError", msg |-> "invalid pin", dev |-> dev]
    ELSE [exc |-> "", msg |-> "",
          dev |-> [dev EXCEPT !.pins = Put(dev.pins, pin, mode)]]

\* GPIOControlServerPicoW.__process_pin with check_setup
NotSetup(dev, pin) == pin \notin DOMAIN dev.pins

NotSetupMsg(pin) == "pin " \o StrOf(pin) \o " not setup"

\* GPIOControlServerPicoW.write_pin on a set-up pin
HwWritePin(dev, pin, value) ==
    [dev EXCEPT !.level = [dev.level EXCEPT ![pin] = Drive(value)]]

\* GPIOControlServerPicoW.read_pin on a set-up pin
HwReadPin(dev, pin) == dev.level[pin]

\* ---------------------------------------------------------- the handlers
VERSION == "1.11.0"

ActionTable == <<"setup_pin", "write_pin", "read_pin", "ping", "reset",
             "get_version", "get_info", "sleep", "list_actions">>

ActionNames == {ActionTable[i] : i \in DOMAIN ActionTable}

\* _action_setup_pin, after setup_pin(), with the optional value validated
SetupPinValue(dev, cmd, pin, w) ==
    IF w.exc # "" THEN Raise(dev, cmd, <<"setup">>, w.exc, w.msg)
    ELSE Ok(HwWritePin(dev, pin, w.vals[1]), cmd, <<"setup", "write">>)

\* _action_setup_pin from the result s of setup_pin() on
SetupPinDone(dev, cmd, pin, s) ==
    IF s.exc # "" THEN Raise(dev, cmd, <<>>, s.exc, s.msg)
    ELSE IF "value" \notin DOMAIN cmd THEN Ok(s.dev, cmd, <<"setup">>)
    ELSE SetupPinValue(s.dev, cmd, pin,
                       ValidateCommand(cmd, <<(<<"value", "int">>)>>))

\* _action_setup_pin from the validated pin and mode on
SetupPinChecked(dev, cmd, v) ==
    IF v.exc # "" THEN Raise(dev, cmd, <<>>, v.exc, v.msg)
    ELSE SetupPinDone(dev, cmd, v.vals[1],
                      HwSetupPin(dev, v.vals[1], v.vals[2]))

ActionSetupPin(dev, t, cmd) ==
    SetupPinChecked(dev, cmd,
        ValidateCommand(cmd, <<(<<"pin", "int">>), (<<"mode", "str">>)>>))

\* the pending reset write_pin creates
ResetTask(pin, value, t, timeout) ==
    SetToBag({[pin |-> pin, value |-> 1 - value, at |-> t + timeout]})

\* write_pin without the check of the pin's current value
WritePinAlways(dev, t, cmd, v) ==
    IF v.exc # "" THEN Raise(dev, cmd, <<>>, v.exc, v.msg)
    ELSE IF NotSetup(dev, v.vals[1])
    THEN Raise(dev, cmd, <<>>, "GPIOPinNotSetupError", NotSetupMsg(v.vals[1]))
    ELSE Ok([HwWritePin(dev, v.vals[1], v.vals[2]) EXCEPT
                !.tasks = @ (+) ResetTask(v.vals[1], v.vals[2], t, v.vals[3])],
            cmd, <<"read", "write">>)

\* _action_write_pin from the validated pin, value and timeout on
WritePinChecked(dev, t, cmd, v) ==
    IF v.exc # "" THEN Raise(dev, cmd, <<>>, v.exc, v.msg)
    ELSE IF NotSetup(dev, v.vals[1])
    THEN Raise(dev, cmd, <<>>, "GPIOPinNotSetupError", NotSetupMsg(v.vals[1]))
    ELSE IF HwReadPin(dev, v.vals[1]) = v.vals[2] THEN Ok(dev, cmd, <<"read">>)
    ELSE Ok([HwWritePin(dev, v.vals[1], v.vals[2]) EXCEPT
                !.tasks = @ (+) ResetTask(v.vals[1], v.vals[2], t, v.vals[3])],
            cmd, <<"read", "write">>)

ActionWritePin(dev, t, cmd) ==
    WritePinChecked(dev, t, cmd,
        ValidateCommand(cmd, <<(<<"pin", "int">>), (<<"value", "int">>),
                              (<<"timeout", "float">>)>>))

\* read_pin that reads the hardware level of a pin without the set-up check
ReadPinUnchecked(dev, cmd, v) ==
    IF v.exc # "" THEN Raise(dev, cmd, <<>>, v.exc, v.msg)
    ELSE Ok(dev, Put(cmd, "value", StrOf(dev.level[v.vals[1]])), <<"read">>)

\* _action_read_pin from the validated pin on
ReadPinChecked(dev, cmd, v) ==
    IF v.exc # "" THEN Raise(dev, cmd, <<>>, v.exc, v.msg)
    ELSE IF NotSetup(dev, v.vals[1])
    THEN Raise(dev, cmd, <<>>, "GPIOPinNotSetupError", NotSetupMsg(v.vals[1]))
    ELSE Ok(dev, Put(cmd, "value", StrOf(HwReadPin(dev, v.vals[1]))), <<"read">>)

ActionReadPin(dev, t, cmd) ==
    ReadPinChecked(dev, cmd, ValidateCommand(cmd, <<(<<"pin", "int">>)>>))

\* a ping that drops what is scheduled
ActionPingClears(dev, t, cmd) == Ok([dev EXCEPT !.tasks = EmptyBag], cmd, <<>>)

ActionPing(dev, t, cmd) == Ok(dev, cmd, <<>>)

\* a reset handler whose task does not sleep before machine.reset()
ActionResetAtOnce(dev, t, cmd) ==
    Ok([dev EXCEPT !.resets = @ (+) SetToBag({[at |-> t]})], cmd, <<>>)

\* reset_after_timeout(soft=False) with its default timeout of 1.0
ActionReset(dev, t, cmd) ==
    Ok([dev EXCEPT !.resets = @ (+) SetToBag({[at |-> t + 1]})], cmd, <<>>)

\* _action_sleep from the validated fields on: the one-shot timer is armed
\* with period=1000 (ms)
SleepChecked(dev, t, cmd, v) ==
    IF v.exc # "" THEN Raise(dev, cmd, <<>>, v.exc, v.msg)
    ELSE Ok([dev EXCEPT !.timers = @ (+) SetToBag({[time_ms |-> v.vals[1],
                                                    deep |-> v.vals[2],
                                                    at |-> t + 1]})],
            cmd, <<>>)

ActionSleep(dev, t, cmd) ==
    SleepChecked(dev, t, cmd,
        ValidateCommand(cmd, <<(<<"time_ms", "int">>), (<<"deep", "int">>)>>))

ActionGetVersion(dev, t, cmd) == Ok(dev, Put(cmd, "version", VERSION), <<>>)

ActionGetInfo(dev, t, cmd) == Ok(dev, Put(cmd, "info", "info"), <<"info">>)

ActionListActions(dev, t, cmd) == Ok(dev, Put(cmd, "actions", ActionTable), <<>>)

\* the message of the ValueError for an action the table does not hold
UnknownActionMsg(a) ==
    "unknown action \"" \o a
    \o "\", use \"list_actions\" to list available actions"

\* a dispatcher that lets an action it does not know pass as a no-op
UnknownActionIgnored(dev, cmd) == Ok(dev, cmd, <<>>)

\* _ACTIONS.get() returned None
UnknownAction(dev, cmd) ==
    Raise(dev, cmd, <<>>, "ValueError", UnknownActionMsg(cmd["action"]))

\* handle_command after the copy has been stamped: the action table
Dispatch(dev, t, cmd) ==
    IF "action" \notin DOMAIN cmd
    THEN Raise(dev, cmd, <<>>, "KeyError", "'action'")
    ELSE CASE cmd["action"] = "setup_pin" -> ActionSetupPin(dev, t, cmd)
           [] cmd["action"] = "write_pin" -> ActionWritePin(dev, t, cmd)
           [] cmd["action"] = "read_pin" -> ActionReadPin(dev, t, cmd)
           [] cmd["action"] = "ping" -> ActionPing(dev, t, cmd)
           [] cmd["action"] = "reset" -> ActionReset(dev, t, cmd)
           [] cmd["action"] = "get_version" -> ActionGetVersion(dev, t, cmd)
           [] cmd["action"] = "get_info" -> ActionGetInfo(dev, t, cmd)
           [] cmd["action"] = "sleep" -> ActionSleep(dev, t, cmd)
           [] cmd["action"] = "list_actions" -> ActionListActions(dev, t, cmd)
           [] OTHER -> UnknownAction(dev, cmd)

\* the body of handle_command: cmd is the mapping json.loads returned
HandleCommand(dev, t, cmd) ==
    Dispatch(dev, t, Put(cmd, "time_received", StrOf(t)))

\* the "error" in res branch of the decorator: the exception class name and
\* str() of the error; a request's own "error" field is a str
ErrorPair(res, exc, msg) ==
    Put(Put(res, "exception", exc), "error", msg)

\* the decorator's result: out = "resp" with the response mapping that is
\* serialized, or out = "raise" with the exception that leaves the wrapper
Responds(dev, calls, failed, resp) ==
    [out |-> "resp", dev |-> dev, calls |-> calls, failed |-> failed,
     resp |-> resp, exc |-> ""]

Escapes(dev, exc) ==
    [out |-> "raise", dev |-> dev, calls |-> <<>>, failed |-> TRUE,
     resp |-> <<>>, exc |-> exc]

\* the decorator from res on (r is what the wrapped function did)
Serialized(r, res) ==
    Responds(r.dev, r.calls, r.exc # "",
             IF "error" \in DOMAIN res
             THEN ErrorPair(res, IF r.exc = "" THEN "str" ELSE r.exc,
                            res["error"])
             ELSE res)

\* the decorator around a call r of the wrapped function on the mapping dic:
\* an exception is put into a copy of dic
Wrapped(dic, r) ==
    Serialized(r, IF r.exc = "" THEN r.cmd ELSE Put(dic, "error", r.msg))

\* json_decorator around handle_command, for a chunk that decoded to text.
\* chunk.k: "badjson" (not JSON), "list" / "scalar" (JSON, not a mapping),
\* "map" (chunk.m is the mapping).
JsonDecorator(dev, t, chunk) ==
    CASE chunk.k = "badjson" ->
           Responds(dev, <<>>, TRUE,
                    ErrorPair(<<>>, "JSONDecodeError", "Expecting value"))
      [] chunk.k = "list" ->
           \* command["time_received"] = ... raises TypeError, and so does
           \* res["error"] = e in the handler of that exception
           Escapes(dev, "TypeError")
      [] chunk.k = "scalar" ->
           \* command.copy() raises AttributeError, and so does dic.copy()
           Escapes(dev, "AttributeError")
      [] chunk.k = "map" -> Wrapped(chunk.m, HandleCommand(dev, t, chunk.m))

\* ------------------------------------------------------------ the client
\* The client is followed through one send_commands call.  cli.pc is
\* "idle", "send" (about to call _send_single_command), "recv" (inside
\* sock.recv), "returned" or "raised".  cli.pending are the commands the
\* device has received and not answered, cli.inbox the responses that have
\* arrived and were not read; both are first-in first-out (TCP, and the
\* device's handler answers in order).  cli.sent is the history of the
\* sendall calls.

\* a Client outside send_commands: no socket, nothing sent
IdleClient == [pc |-> "idle", cmds |-> <<>>, responses |-> <<>>,
               sent |-> <<>>, sock |-> "closed", pending |-> <<>>,
               inbox |-> <<>>, dt |-> 0, timeout |-> 0, validate |-> "",
               elapsed |-> 0, attempts |-> 0, result |-> FALSE]

\* the state of the device, which no step of the client touches
ServerVars == <<now, pins, level, tasks, timers, resets, conn, blink, idle,
                event, led, mainpc, last, wrote, setorder>>

\* e.__class__.__name__ of what _send_single_command caught
ExcName(cause) ==
    CASE cause = "timeout" -> "TimeoutError"
      [] cause = "reset" -> "ConnectionResetError"
      [] cause = "sendfails" -> "BrokenPipeError"
      [] cause = "badjson" -> "JSONDecodeError"
      [] cause = "badutf8" -> "UnicodeDecodeError"
      [] cause = "notmap" -> "TypeError"
      [] cause = "bytes" -> "TypeError"

\* the entry _send_single_command returns for command i: the decoded
\* response of the device (of = the command the device answered), or the
\* error entry built in the except block
ResponseEntry(i, of) ==
    [slot |-> i, kind |-> "response", of |-> of, exception |-> "",
     cause |-> ""]

ErrorEntry(i, cause) ==
    [slot |-> i, kind |-> "error", of |-> 0, exception |-> ExcName(cause),
     cause |-> cause]

\* send_commands: _create_socket() has connected
SendCommands(cmds) ==
    /\ cli.pc = "idle"
    /\ cli' = [IdleClient EXCEPT !.pc = "send", !.cmds = cmds,
                                 !.sock = "open"]
    /\ UNCHANGED ServerVars

\* _send_single_command up to sendall: on a connection that is broken
\* sendall raises, and the except block makes the entry
CliSendAll ==
    /\ cli.pc = "send"
    /\ Len(cli.responses) < Len(cli.cmds)
    /\ IF cli.sock = "open"
       THEN cli' = [cli EXCEPT
                      !.pc = "recv",
                      !.sent = Append(@, [i |-> Len(cli.responses) + 1,
                                          ok |-> TRUE]),
                      !.pending = Append(@, Len(cli.responses) + 1)]
       ELSE cli' = [cli EXCEPT
                      !.sent = Append(@, [i |-> Len(cli.responses) + 1,
                                          ok |-> FALSE]),
                      !.responses = Append(@, ErrorEntry(Len(cli.responses) + 1,
                                                         "sendfails"))]
    /\ UNCHANGED ServerVars

\* the device answers the oldest command it has not answered; kind is what
\* its bytes are to the client: a JSON mapping, or not
DeviceAnswers(kind) ==
    /\ cli.sock = "open"
    /\ cli.pending # <<>>
    /\ cli' = [cli EXCEPT !.pending = Tail(@),
                          !.inbox = Append(@, [of |-> Head(cli.pending),
                                               kind |-> kind])]
    /\ UNCHANGED ServerVars

\* _receive_response: recv returns the oldest unread response; decode,
\* json.loads and the time_responded stamp succeed or raise
CliRecv ==
    /\ cli.pc = "recv"
    /\ cli.sock = "open"
    /\ cli.inbox # <<>>
    /\ cli' = [cli EXCEPT
                  !.pc = "send",
                  !.inbox = Tail(@),
                  !.responses =
                      Append(@, IF Head(cli.inbox).kind = "map"
                                THEN ResponseEntry(Len(cli.responses) + 1,
                                                   Head(cli.inbox).of)
                                ELSE ErrorEntry(Len(cli.responses) + 1,
                                                Head(cli.inbox).kind))]
    /\ UNCHANGED ServerVars

\* a recv timeout that leaves send_commands instead of being caught
CliTimeoutAborts ==
    /\ cli.pc = "recv"
    /\ cli.sock = "open"
    /\ cli.inbox = <<>>
    /\ cli' = [cli EXCEPT !.pc = "returned", !.sock = "closed"]
    /\ UNCHANGED ServerVars

\* recv raises socket.timeout: nothing arrived within the timeout
CliTimeout ==
    /\ cli.pc = "recv"
    /\ cli.sock = "open"
    /\ cli.inbox = <<>>
    /\ cli' = [cli EXCEPT
                  !.pc = "send",
                  !.responses = Append(@, ErrorEntry(Len(cli.responses) + 1,
                                                     "timeout"))]
    /\ UNCHANGED ServerVars

\* recv raises ConnectionResetError: the connection is gone
CliConnReset ==
    /\ cli.pc = "recv"
    /\ cli.sock = "open"
    /\ cli' = [cli EXCEPT
                  !.pc = "send",
                  !.sock = "broken",
                  !.pending = <<>>,
                  !.inbox = <<>>,
                  !.responses = Append(@, ErrorEntry(Len(cli.responses) + 1,
                                                     "reset"))]
    /\ UNCHANGED ServerVars

\* the for loop is over: the socket is closed and the list returned
CliReturn ==
    /\ cli.pc = "send"
    /\ Len(cli.responses) = Len(cli.cmds)
    /\ cli' = [cli EXCEPT !.pc = "returned", !.sock = "closed"]
    /\ UNCHANGED ServerVars

\* poll_command_response is followed through one call: cli.pc is "poll"
\* (at the test of the while loop) and then "polled".  cli.elapsed is
\* time.time() - start, cli.attempts the calls of _send_single_command.

\* fun_validate applied to an entry: a validator that never accepts, one
\* that accepts any response of the device, one that accepts anything
Validate(v, entry) ==
    CASE v = "never" -> FALSE
      [] v = "device" -> entry.kind = "response"
      [] v = "always" -> TRUE

\* poll_command_response: cmd = json.dumps(cmd).encode(), the socket is
\* open, start = time.time()
PollCommandResponse(dt, timeout, v) ==
    /\ cli.pc = "idle"
    /\ cli' = [IdleClient EXCEPT !.pc = "poll", !.cmds = <<"ping">>,
                                 !.sock = "open", !.dt = dt,
                                 !.timeout = timeout, !.validate = v]
    /\ UNCHANGED ServerVars

\* the entry _send_single_command(sock, cmd) returns for the bytes object
\* cmd: command["time_sent"] = ... raises TypeError before sendall, and
\* the except block makes the entry
BytesEntry == ErrorEntry(cli.attempts + 1, "bytes")

\* one turn of the while loop, the call taking the time r: validate the
\* entry, return True or sleep dt
PollAttempt(r) ==
    /\ cli.pc = "poll"
    /\ cli.elapsed < cli.timeout
    /\ IF Validate(cli.validate, BytesEntry)
       THEN cli' = [cli EXCEPT !.pc = "polled", !.sock = "closed",
                                !.attempts = @ + 1,
                                !.responses = Append(@, BytesEntry),
                                !.elapsed = @ + r,
                                !.result = TRUE]
       ELSE cli' = [cli EXCEPT !.attempts = @ + 1,
                                !.responses = Append(@, BytesEntry),
                                !.elapsed = @ + r + cli.dt]
    /\ UNCHANGED ServerVars

\* the while test fails: return False
PollTimeout ==
    /\ cli.pc = "poll"
    /\ cli.elapsed >= cli.timeout
    /\ cli' = [cli EXCEPT !.pc = "polled", !.sock = "closed",
                            !.result = FALSE]
    /\ UNCHANGED ServerVars

\* ------------------------------------------------------------ the tasks
NoLast == [act |-> "", c |-> 0, chunk |-> [k |-> ""], out |-> "",
           failed |-> FALSE, resp |-> <<>>, calls |-> <<>>]

NoWrite == [on |-> FALSE, v |-> 0, at |-> 0, held |-> FALSE, hv |-> 0, until |-> 0]

\* the event loop runs tasks from run() until asyncio.run() has torn it down
LoopRuns == mainpc \in {"listening", "stopping"}

\* Event.set(): a task suspended in Event.wait() is made ready, and does not
\* look at the event again when it resumes
EventSet(i) == IF i = "blocked" THEN "woken" ELSE i

Init ==
    /\ now = 0
    /\ pins = <<>>
    /\ level = [p \in PinIds |-> 0]
    /\ tasks = EmptyBag
    /\ timers = EmptyBag
    /\ resets = EmptyBag
    /\ conn = [c \in Conns |-> [pc |-> "none", nread |-> 0, resp |-> <<>>,
                                 flushed |-> 0, end |-> ""]]
    /\ blink = [c \in Conns |-> [pc |-> "none", i |-> 0, cancel |-> FALSE]]
    /\ idle = "none"
    /\ event = TRUE
    /\ led = 0
    /\ mainpc = "config"
    /\ last = NoLast
    /\ wrote = [p \in PinIds |-> NoWrite]
    /\ setorder \in SetOrders
    /\ cli = IdleClient

\* configure_network of the Pico: blink_led() toggles the LED while the
\* WLAN is not connected yet
ConfigureBlink ==
    /\ mainpc = "config"
    /\ led' = 1 - led
    /\ last' = NoLast
    /\ UNCHANGED <<setorder, cli>>
    /\ UNCHANGED <<now, pins, level, tasks, timers, resets, conn, blink, idle,
                   event, mainpc, wrote>>

\* run(): configuration done, the idle blink task is created, server_listen
Run ==
    /\ mainpc = "config"
    /\ led = 0
    /\ mainpc' = "listening"
    /\ idle' = "new"
    /\ last' = NoLast
    /\ UNCHANGED <<setorder, cli>>
    /\ UNCHANGED <<now, pins, level, tasks, timers, resets, conn, blink, event,
                   led, wrote>>

\* configuration raises (or is interrupted): run() is left before the idle
\* task exists, and __main__'s finally runs next
ConfigureFails ==
    /\ mainpc = "config"
    /\ mainpc' = "cleanup"
    /\ last' = NoLast
    /\ UNCHANGED <<setorder, cli>>
    /\ UNCHANGED <<now, pins, level, tasks, timers, resets, conn, blink, idle,
                   event, led, wrote>>

\* server_listen returns, raises or is cancelled: run()'s finally
RunExits ==
    /\ mainpc = "listening"
    /\ mainpc' = "stopping"
    /\ idle' = "cancelled"
    /\ last' = NoLast
    /\ UNCHANGED <<setorder, cli>>
    /\ UNCHANGED <<now, pins, level, tasks, timers, resets, conn, blink, event,
                   led, wrote>>

\* asyncio.run() cancels every task left and runs them to their end: the
\* handlers' and the blinks' finally blocks run, pending resets are dropped
Teardown ==
    /\ mainpc = "stopping"
    /\ mainpc' = "cleanup"
    /\ conn' = [c \in Conns |->
                  IF conn[c].pc \in {"read", "drain"}
                  THEN [conn[c] EXCEPT !.pc = "done", !.end = "cancelled"]
                  ELSE conn[c]]
    /\ blink' = [c \in Conns |->
                   IF blink[c].pc \in {"new", "on", "off"}
                   THEN [blink[c] EXCEPT !.pc = "done", !.cancel = TRUE]
                   ELSE blink[c]]
    /\ event' = IF \E c \in Conns : blink[c].pc \in {"on", "off"}
                THEN TRUE ELSE event
    /\ tasks' = EmptyBag
    /\ resets' = EmptyBag
    /\ last' = NoLast
    /\ UNCHANGED <<setorder, cli>>
    /\ UNCHANGED <<now, pins, level, timers, idle, led, wrote>>

\* a cleanup that leaves the LED as it is
CleanupKeepsLed ==
    /\ mainpc = "cleanup"
    /\ mainpc' = "exited"
    /\ last' = NoLast
    /\ UNCHANGED <<setorder, cli>>
    /\ UNCHANGED <<now, pins, level, tasks, timers, resets, conn, blink, idle,
                   event, wrote, led>>

\* cleanup(): led_off()
Cleanup ==
    /\ mainpc = "cleanup"
    /\ mainpc' = "exited"
    /\ led' = 0
    /\ last' = NoLast
    /\ UNCHANGED <<setorder, cli>>
    /\ UNCHANGED <<now, pins, level, tasks, timers, resets, conn, blink, idle,
                   event, wrote>>

\* ------------------------------------------------- the status indicator
\* one step of __blink_led_infinite, from one await to the next
IdleStep ==
    /\ LoopRuns
    /\ \/ /\ idle \in {"new", "off"}          \* await event.wait()
          /\ IF event THEN idle' = "on" /\ led' = 1
                      ELSE idle' = "blocked" /\ led' = led
       \/ /\ idle = "woken"                   \* resumed by Event.set()
          /\ idle' = "on" /\ led' = 1
       \/ /\ idle = "on"                      \* after sleep(duration)
          /\ idle' = "off" /\ led' = 0
    /\ last' = NoLast
    /\ UNCHANGED <<setorder, cli>>
    /\ UNCHANGED <<now, pins, level, tasks, timers, resets, conn, blink, event,
                   mainpc, wrote>>

\* one step of blink_led_async(0.020, n, 0.1) of connection c
BlinkStep(c) ==
    /\ LoopRuns
    /\ ~blink[c].cancel
    /\ \/ /\ blink[c].pc = "new"              \* clear(); first led_on()
          /\ event' = FALSE
          /\ led' = 1
          /\ blink' = [blink EXCEPT ![c].pc = "on"]
          /\ idle' = idle
       \/ /\ blink[c].pc = "on"               \* led_off(); sleep(dt)
          /\ led' = 0
          /\ blink' = [blink EXCEPT ![c].pc = "off", ![c].i = @ + 1]
          /\ UNCHANGED <<event, idle>>
       \/ /\ blink[c].pc = "off"              \* next cycle, or the loop ends
          /\ IF blink[c].i < MaxBlinks
             THEN /\ led' = 1
                  /\ blink' = [blink EXCEPT ![c].pc = "on"]
                  /\ UNCHANGED <<event, idle>>
             ELSE /\ event' = TRUE
                  /\ idle' = EventSet(idle)
                  /\ blink' = [blink EXCEPT ![c].pc = "done"]
                  /\ led' = led
    /\ last' = NoLast
    /\ UNCHANGED <<setorder, cli>>
    /\ UNCHANGED <<now, pins, level, tasks, timers, resets, conn, mainpc, wrote>>

\* a blink task whose cancellation skips the finally block
BlinkCancelledNoFinally(c) ==
    /\ LoopRuns
    /\ blink[c].cancel
    /\ blink[c].pc \in {"new", "on", "off"}
    /\ blink' = [blink EXCEPT ![c].pc = "done"]
    /\ last' = NoLast
    /\ UNCHANGED <<setorder, cli>>
    /\ UNCHANGED <<now, pins, level, tasks, timers, resets, conn, led, mainpc,
                   wrote, event, idle>>

\* task_blink.cancel() reaches the task: CancelledError at its await runs
\* the finally block; a task that never started never entered the try
BlinkCancelled(c) ==
    /\ LoopRuns
    /\ blink[c].cancel
    /\ blink[c].pc \in {"new", "on", "off"}
    /\ blink' = [blink EXCEPT ![c].pc = "done"]
    /\ IF blink[c].pc = "new"
       THEN UNCHANGED <<event, idle>>
       ELSE event' = TRUE /\ idle' = EventSet(idle)
    /\ last' = NoLast
    /\ UNCHANGED <<setorder, cli>>
    /\ UNCHANGED <<now, pins, level, tasks, timers, resets, conn, led, mainpc,
                   wrote>>

\* ------------------------------------------------ the connection handler
\* the finally block of handle_client: task_blink.cancel(), writer.close()
HandlerEnds(c, how) ==
    /\ conn' = [conn EXCEPT ![c].pc = "done", ![c].end = how]
    /\ blink' = [blink EXCEPT ![c].cancel = (blink[c].pc # "done")]

\* start_server's callback: handle_client starts and creates its blink task
Accept(c) ==
    /\ mainpc = "listening"
    /\ conn[c].pc = "none"
    /\ conn' = [conn EXCEPT ![c].pc = "read"]
    /\ blink' = [blink EXCEPT ![c].pc = "new"]
    /\ last' = NoLast
    /\ UNCHANGED <<setorder, cli>>
    /\ UNCHANGED <<now, pins, level, tasks, timers, resets, idle, event, led,
                   mainpc, wrote>>

\* the pin a setup_pin / write_pin command names, 0 if it names none
PinOf(chunk) ==
    IF /\ chunk.k = "map"
       /\ "action" \in DOMAIN chunk.m
       /\ chunk.m["action"] \in {"setup_pin", "write_pin"}
       /\ "pin" \in DOMAIN chunk.m
       /\ IsNum(chunk.m["pin"])
       /\ IntOf(chunk.m["pin"]) \in PinIds
    THEN IntOf(chunk.m["pin"]) ELSE 0

\* history of the latest write_pin that changed pin p (on, v, at) and of the
\* latest write_pin for p answered without error (held, hv, until), dropped
\* by any later setup_pin / write_pin naming that pin
WroteAt(p, chunk, r) ==
    IF p = 0 THEN wrote
    ELSE IF chunk.m["action"] = "write_pin" /\ r.calls = <<"read", "write">>
         THEN [wrote EXCEPT ![p] = [on |-> TRUE, v |-> IntOf(chunk.m["value"]),
                                    at |-> now + IntOf(chunk.m["timeout"]),
                                    held |-> TRUE,
                                    hv |-> IntOf(chunk.m["value"]),
                                    until |-> now + IntOf(chunk.m["timeout"])]]
         ELSE IF chunk.m["action"] = "write_pin" /\ ~r.failed
              THEN [wrote EXCEPT ![p] = [NoWrite EXCEPT
                                           !.held = TRUE,
                                           !.hv = IntOf(chunk.m["value"]),
                                           !.until = now + IntOf(chunk.m["timeout"])]]
              ELSE [wrote EXCEPT ![p] = NoWrite]

\* a read_pin naming a pin addresses it: the history of the answered
\* write_pin ends there as well
HeldAt(w, chunk) ==
    IF /\ chunk.k = "map"
       /\ "action" \in DOMAIN chunk.m
       /\ chunk.m["action"] = "read_pin"
       /\ "pin" \in DOMAIN chunk.m
       /\ IsNum(chunk.m["pin"])
       /\ IntOf(chunk.m["pin"]) \in PinIds
    THEN [w EXCEPT ![IntOf(chunk.m["pin"])].held = FALSE,
                   ![IntOf(chunk.m["pin"])].hv = 0,
                   ![IntOf(chunk.m["pin"])].until = 0]
    ELSE w

\* handle_client when data.decode() or handle_command raises: the finally
\* block runs and the exception ends the task
HandlerRaises(c, chunk) ==
    /\ conn' = [conn EXCEPT ![c].pc = "done", ![c].end = "exception",
                            ![c].nread = @ + 1]
    /\ blink' = [blink EXCEPT ![c].cancel = (blink[c].pc # "done")]
    /\ last' = [NoLast EXCEPT !.act = "chunk", !.c = c, !.chunk = chunk,
                              !.out = "raise", !.failed = TRUE]
    /\ UNCHANGED <<setorder, cli>>

\* a handler that goes back to reader.read() without awaiting drain()
ServedPipelined(c, chunk, r) ==
    /\ BagCardinality(r.dev.tasks) <= MaxTasks
    /\ BagCardinality(r.dev.timers) <= MaxTimers
    /\ BagCardinality(r.dev.resets) <= MaxTimers
    /\ pins' = r.dev.pins
    /\ level' = r.dev.level
    /\ tasks' = r.dev.tasks
    /\ timers' = r.dev.timers
    /\ resets' = r.dev.resets
    /\ wrote' = HeldAt(WroteAt(PinOf(chunk), chunk, r), chunk)
    /\ IF r.out = "raise"
       THEN HandlerRaises(c, chunk)
       ELSE /\ conn' = [conn EXCEPT ![c].nread = @ + 1,
                                    ![c].resp = Append(@, conn[c].nread + 1)]
            /\ blink' = blink
            /\ last' = [act |-> "chunk", c |-> c, chunk |-> chunk,
                        out |-> r.out, failed |-> r.failed, resp |-> r.resp,
                        calls |-> r.calls]
            /\ UNCHANGED <<setorder, cli>>

\* handle_client from the result r of handle_command on
Served(c, chunk, r) ==
    /\ BagCardinality(r.dev.tasks) <= MaxTasks
    /\ BagCardinality(r.dev.timers) <= MaxTimers
    /\ BagCardinality(r.dev.resets) <= MaxTimers
    /\ pins' = r.dev.pins
    /\ level' = r.dev.level
    /\ tasks' = r.dev.tasks
    /\ timers' = r.dev.timers
    /\ resets' = r.dev.resets
    /\ wrote' = HeldAt(WroteAt(PinOf(chunk), chunk, r), chunk)
    /\ IF r.out = "raise"
       THEN HandlerRaises(c, chunk)
       ELSE /\ conn' = [conn EXCEPT ![c].pc = "drain",
                                    ![c].nread = @ + 1,
                                    ![c].resp = Append(@, conn[c].nread + 1)]
            /\ blink' = blink
            /\ last' = [act |-> "chunk", c |-> c, chunk |-> chunk,
                        out |-> r.out, failed |-> r.failed, resp |-> r.resp,
                        calls |-> r.calls]
            /\ UNCHANGED <<setorder, cli>>

\* a handler that awaits the pending resets before it reads again
ReadChunkWaits(c, chunk, maxn) ==
    /\ LoopRuns
    /\ conn[c].pc = "read"
    /\ conn[c].nread < maxn
    /\ tasks = EmptyBag
    /\ IF chunk.k = "badutf8"
       THEN /\ HandlerRaises(c, chunk)
            /\ UNCHANGED <<pins, level, tasks, timers, resets, wrote>>
       ELSE Served(c, chunk, JsonDecorator(Dev, now, chunk))
    /\ UNCHANGED <<now, idle, event, led, mainpc>>

\* the sleeping tasks / timers whose delay has elapsed
Due(bag) == {x \in BagToSet(bag) : x.at <= now}

\* the device as a reset that is due leaves it
DevFired(x) ==
    [Dev EXCEPT !.tasks = tasks (-) SetToBag({x}),
                !.level = IF NotSetup(Dev, x.pin) THEN level
                          ELSE HwWritePin(Dev, x.pin, x.value).level]

\* a handler that yields to the event loop before it dispatches, so that a
\* reset that is due fires inside the handling of the command
ReadChunkYields(c, chunk, maxn) ==
    /\ LoopRuns
    /\ conn[c].pc = "read"
    /\ conn[c].nread < maxn
    /\ IF chunk.k = "badutf8"
       THEN /\ HandlerRaises(c, chunk)
            /\ UNCHANGED <<pins, level, tasks, timers, resets, wrote>>
       ELSE IF Due(tasks) = {}
            THEN Served(c, chunk, JsonDecorator(Dev, now, chunk))
            ELSE \E x \in Due(tasks) :
                    Served(c, chunk, JsonDecorator(DevFired(x), now, chunk))
    /\ UNCHANGED <<now, idle, event, led, mainpc>>

\* reader.read() returned a chunk: data.decode(), handle_command, write
ReadChunk(c, chunk, maxn) ==
    /\ LoopRuns
    /\ conn[c].pc = "read"
    /\ conn[c].nread < maxn
    /\ IF chunk.k = "badutf8"
       THEN /\ HandlerRaises(c, chunk)
            /\ UNCHANGED <<pins, level, tasks, timers, resets, wrote>>
       ELSE Served(c, chunk, JsonDecorator(Dev, now, chunk))
    /\ UNCHANGED <<now, idle, event, led, mainpc>>

\* a handler whose end cancels the resets that are pending
ReadEofCancels(c) ==
    /\ LoopRuns
    /\ conn[c].pc = "read"
    /\ HandlerEnds(c, "eof")
    /\ tasks' = EmptyBag
    /\ last' = NoLast
    /\ UNCHANGED <<setorder, cli>>
    /\ UNCHANGED <<now, pins, level, timers, resets, idle, event, led,
                   mainpc, wrote>>

\* reader.read() returned no data: the peer closed
ReadEof(c) ==
    /\ LoopRuns
    /\ conn[c].pc = "read"
    /\ HandlerEnds(c, "eof")
    /\ last' = NoLast
    /\ UNCHANGED <<setorder, cli>>
    /\ UNCHANGED <<now, pins, level, tasks, timers, resets, idle, event, led,
                   mainpc, wrote>>

\* an I/O error on a connection that takes the listener down with it
IoFailsStopsListener(c) ==
    /\ LoopRuns
    /\ conn[c].pc \in {"read", "drain"}
    /\ HandlerEnds(c, "ioerror")
    /\ mainpc' = "stopping"
    /\ last' = NoLast
    /\ UNCHANGED <<setorder, cli>>
    /\ UNCHANGED <<now, pins, level, tasks, timers, resets, idle, event, led,
                   wrote>>

\* reader.read() or writer.drain() raised
IoFails(c) ==
    /\ LoopRuns
    /\ conn[c].pc \in {"read", "drain"}
    /\ HandlerEnds(c, "ioerror")
    /\ last' = NoLast
    /\ UNCHANGED <<setorder, cli>>
    /\ UNCHANGED <<now, pins, level, tasks, timers, resets, idle, event, led,
                   mainpc, wrote>>

\* writer.drain() returned: back to reader.read()
Drain(c) ==
    /\ LoopRuns
    /\ conn[c].pc = "drain"
    /\ conn' = [conn EXCEPT ![c].pc = "read", ![c].flushed = Len(conn[c].resp)]
    /\ last' = NoLast
    /\ UNCHANGED <<setorder, cli>>
    /\ UNCHANGED <<now, pins, level, tasks, timers, resets, blink, idle, event,
                   led, mainpc, wrote>>

\* -------------------------------------------------------- time and timers

\* a second passes; whatever is due runs before the clock moves on
Tick(maxt) ==
    /\ now < maxt
    /\ Due(tasks) = {} /\ Due(timers) = {} /\ Due(resets) = {}
    /\ now' = now + 1
    /\ last' = NoLast
    /\ UNCHANGED <<setorder, cli>>
    /\ UNCHANGED <<pins, level, tasks, timers, resets, conn, blink, idle, event,
                   led, mainpc, wrote>>

\* write_pin_after_timeout after its sleep: write_pin(pin, value)
WritePinAfterTimeout(task) ==
    /\ LoopRuns
    /\ task \in Due(tasks)
    /\ tasks' = tasks (-) SetToBag({task})
    /\ level' = IF NotSetup(Dev, task.pin) THEN level
                ELSE HwWritePin(Dev, task.pin, task.value).level
    /\ last' = NoLast
    /\ UNCHANGED <<setorder, cli>>
    /\ UNCHANGED <<now, pins, timers, resets, conn, blink, idle, event, led,
                   mainpc, wrote>>

\* machine.reset() / wake-up from machine.deepsleep(): the program starts
\* again from power-on state; only the clock of the model goes on
Reboot ==
    /\ pins' = <<>>
    /\ level' = [p \in PinIds |-> 0]
    /\ tasks' = EmptyBag
    /\ timers' = EmptyBag
    /\ resets' = EmptyBag
    /\ conn' = [c \in Conns |-> [pc |-> "none", nread |-> 0, resp |-> <<>>,
                                  flushed |-> 0, end |-> ""]]
    /\ blink' = [c \in Conns |-> [pc |-> "none", i |-> 0, cancel |-> FALSE]]
    /\ idle' = "none"
    /\ event' = TRUE
    /\ led' = 0
    /\ mainpc' = "config"
    /\ last' = NoLast
    /\ UNCHANGED <<setorder, cli>>
    /\ wrote' = [p \in PinIds |-> NoWrite]
    /\ now' = now

\* the one-shot timer of _action_sleep fires: sleep(time_ms, deep).  The
\* modelled sleeps last milliseconds, below the resolution of the clock.
Sleep(tm) ==
    /\ tm \in Due(timers)
    /\ IF tm.deep # 0
       THEN Reboot
       ELSE /\ timers' = timers (-) SetToBag({tm})
            /\ event' = TRUE
            /\ idle' = EventSet(idle)
            /\ led' = 0
            /\ last' = NoLast
            /\ UNCHANGED <<setorder, cli>>
            /\ UNCHANGED <<now, pins, level, tasks, resets, conn, blink,
                           mainpc, wrote>>

\* reset_after_timeout after its sleep: machine.reset()
ResetAfterTimeout(task) ==
    /\ LoopRuns
    /\ task \in Due(resets)
    /\ Reboot

\* ------------------------------------------------------------- the inputs
Map(m) == [k |-> "map", m |-> m]

NotMap(k) == [k |-> k, m |-> <<>>]

Cmd(action) == Map("action" :> action)

PinCmd(action, pin) == Map(("action" :> action) @@ ("pin" :> pin))

\* what the peer sends in the pin scenarios
PinChunks ==
    {Map(("action" :> "setup_pin") @@ ("pin" :> "1") @@ ("mode" :> "output"))}
    \cup {Map(("action" :> "setup_pin") @@ ("pin" :> "1") @@ ("mode" :> "output")
              @@ ("value" :> v)) : v \in {"0", "1"}}
    \cup {Map(("action" :> "write_pin") @@ ("pin" :> "1") @@ ("value" :> v)
              @@ ("timeout" :> t)) : v \in {"0", "1"}, t \in {"1", "2"}}
    \cup {PinCmd("read_pin", "1"), PinCmd("read_pin", "2"), Cmd("blink"),
          NotMap("badjson"), NotMap("list"), NotMap("scalar"),
          NotMap("badutf8")}

\* what the peer sends in the indicator scenarios
BlinkChunks ==
    {Cmd("ping"),
     Map(("action" :> "sleep") @@ ("time_ms" :> "5") @@ ("deep" :> "0")),
     NotMap("badutf8")}

\* a command with one more field
With(chunk, k, v) == Map(Put(chunk.m, k, v))

\* what the peer sends in the protocol scenarios: well-formed commands,
\* unknown actions, commands lacking required fields, and commands carrying
\* fields of their own
ProtoChunks ==
    {Map(("action" :> "setup_pin") @@ ("pin" :> "1") @@ ("mode" :> "output")),
     Map(("action" :> "write_pin") @@ ("pin" :> "1") @@ ("value" :> "1")
         @@ ("timeout" :> "1")),
     PinCmd("read_pin", "1"), PinCmd("read_pin", "2"),
     Cmd("ping"), Cmd("get_version"), Cmd("get_info"), Cmd("list_actions"),
     Cmd("blink"), Cmd("soft_reset"),
     Cmd("setup_pin"), PinCmd("setup_pin", "1"),
     Cmd("write_pin"), PinCmd("write_pin", "1"),
     Cmd("read_pin"), Cmd("sleep"),
     Map(("action" :> "sleep") @@ ("deep" :> "0")),
     With(Cmd("ping"), "tag", "x"), With(Cmd("blink"), "tag", "x"),
     With(Cmd("ping"), "error", "x"), With(Cmd("ping"), "exception", "y"),
     With(With(Cmd("get_version"), "error", "x"), "exception", "y"),
     With(PinCmd("read_pin", "1"), "value", "7"),
     With(PinCmd("read_pin", "2"), "value", "7")}

\* the lists of commands a caller hands to send_commands
CmdLists ==
    UNION {[1..n -> {"ping", "read_pin"}] : n \in 0..MaxList}

\* what the device's bytes are to the client
AnswerKinds == {"map", "badjson", "badutf8", "notmap"}

\* ------------------------------------------------------ the specifications
\* Pin scenarios: one connection drives the pins; time passes and pending
\* resets fire.
Next ==
    \/ Run
    \/ Accept(1)
    \/ \E chunk \in PinChunks : ReadChunk(1, chunk, MaxCmds)
    \/ Drain(1)
    \/ ReadEof(1)
    \/ Tick(MaxTime)
    \/ \E task \in BagToSet(tasks) : WritePinAfterTimeout(task)

Spec == Init /\ [][Next]_vars

\* Protocol scenarios: one connection sends every kind of command, in any
\* order, while pending resets fire.
NextProto ==
    \/ Run
    \/ Accept(1)
    \/ \E chunk \in ProtoChunks : ReadChunk(1, chunk, MaxCmds)
    \/ Drain(1)
    \/ ReadEof(1)
    \/ Tick(MaxTime)
    \/ \E task \in BagToSet(tasks) : WritePinAfterTimeout(task)

SpecProto == Init /\ [][NextProto]_vars

\* what the peers send in the connection scenarios
ConnChunks ==
    {Map(("action" :> "setup_pin") @@ ("pin" :> "1") @@ ("mode" :> "output")
         @@ ("value" :> "1")),
     PinCmd("read_pin", "1")}

\* Connection scenarios: two connections come and go, by end of stream or
\* by an I/O error, and drive the same pins.
NextConn ==
    \/ Run
    \/ \E c \in Conns : Accept(c)
    \/ \E c \in Conns, chunk \in ConnChunks : ReadChunk(c, chunk, MaxCmds)
    \/ \E c \in Conns : Drain(c)
    \/ \E c \in Conns : ReadEof(c)
    \/ \E c \in Conns : IoFails(c)

SpecConn == Init /\ [][NextConn]_vars

\* what the peer sends in the power scenarios
PowerChunks ==
    {Cmd("reset"), Cmd("ping"), Cmd("sleep"),
     Map(("action" :> "sleep") @@ ("time_ms" :> "5") @@ ("deep" :> "0")),
     Map(("action" :> "sleep") @@ ("time_ms" :> "5") @@ ("deep" :> "1"))}

\* Power scenarios: one connection asks for resets and sleeps; the delayed
\* reset task and the sleep timer fire, and the device may start again.
NextPower ==
    \/ Run
    \/ Accept(1)
    \/ \E chunk \in PowerChunks : ReadChunk(1, chunk, MaxCmds)
    \/ Drain(1)
    \/ ReadEof(1)
    \/ Tick(MaxTime)
    \/ \E tm \in BagToSet(timers) : Sleep(tm)
    \/ \E task \in BagToSet(resets) : ResetAfterTimeout(task)

SpecPower == Init /\ [][NextPower]_vars

\* Client scenarios: one send_commands call against a device that answers,
\* answers late, answers garbage, or drops the connection.
NextClient ==
    \/ \E cmds \in CmdLists : SendCommands(cmds)
    \/ CliSendAll
    \/ \E kind \in AnswerKinds : DeviceAnswers(kind)
    \/ CliRecv
    \/ CliTimeout
    \/ CliConnReset
    \/ CliReturn

SpecClient == Init /\ [][NextClient]_vars

\* what a caller may pass as fun_validate
Validators == {"never", "device", "always"}

\* Polling scenarios: one poll_command_response call, each turn of its
\* loop taking some time.
NextPoll ==
    \/ \E dt \in 1..MaxDt, timeout \in 1..MaxPollTime, v \in Validators :
          PollCommandResponse(dt, timeout, v)
    \/ \E r \in 0..MaxRtt : PollAttempt(r)
    \/ PollTimeout

SpecPoll == Init /\ [][NextPoll]_vars

\* no command of the scheduling and indicator scenarios lacks a field, so
\* they are followed for one iteration order only
InitBlink == Init /\ setorder = "fwd"

\* what the peer sends in the scheduling scenarios
SchedChunks ==
    {Map(("action" :> "setup_pin") @@ ("pin" :> "1") @@ ("mode" :> "output")),
     Map(("action" :> "write_pin") @@ ("pin" :> "1") @@ ("value" :> "1")
         @@ ("timeout" :> "2")),
     Map(("action" :> "write_pin") @@ ("pin" :> "1") @@ ("value" :> "0")
         @@ ("timeout" :> "1")),
     PinCmd("read_pin", "1"), Cmd("ping")}

\* Scheduling scenarios: one connection writes pins with timeouts and goes
\* on (or closes, or fails) while the resets wait and fire and the idle
\* and the connection's blink run.
NextSched ==
    \/ Run
    \/ IdleStep
    \/ Accept(1)
    \/ \E chunk \in SchedChunks : ReadChunk(1, chunk, MaxSched)
    \/ Drain(1)
    \/ ReadEof(1)
    \/ IoFails(1)
    \/ BlinkStep(1)
    \/ BlinkCancelled(1)
    \/ Tick(MaxTime)
    \/ \E task \in BagToSet(tasks) : WritePinAfterTimeout(task)

SpecSched == InitBlink /\ [][NextSched]_vars

\* what the peer sends in the failure scenarios
FailChunks ==
    {Map(("action" :> "setup_pin") @@ ("pin" :> "1") @@ ("mode" :> "output")),
     Map(("action" :> "setup_pin") @@ ("pin" :> "1") @@ ("mode" :> "inpt")),
     Map(("action" :> "setup_pin") @@ ("pin" :> "2") @@ ("mode" :> "output")
         @@ ("value" :> "x")),
     Map(("action" :> "write_pin") @@ ("pin" :> "1") @@ ("value" :> "1")
         @@ ("timeout" :> "1")),
     Map(("action" :> "write_pin") @@ ("pin" :> "1") @@ ("value" :> "1")
         @@ ("timeout" :> "x")),
     Map(("action" :> "write_pin") @@ ("pin" :> "2") @@ ("value" :> "1")
         @@ ("timeout" :> "1")),
     PinCmd("read_pin", "2"), Cmd("sleep"), Cmd("blink")}

\* Failure scenarios: one connection sends commands that fail in every
\* handler, between commands that succeed.
NextFail ==
    \/ Run
    \/ Accept(1)
    \/ \E chunk \in FailChunks : ReadChunk(1, chunk, MaxReads)
    \/ Drain(1)
    \/ ReadEof(1)
    \/ Tick(MaxBlinkTime)
    \/ \E task \in BagToSet(tasks) : WritePinAfterTimeout(task)

SpecFail == InitBlink /\ [][NextFail]_vars

\* what the peers send in the shared-device scenarios
SharedChunks ==
    {Map(("action" :> "setup_pin") @@ ("pin" :> "1") @@ ("mode" :> "output")),
     Map(("action" :> "write_pin") @@ ("pin" :> "1") @@ ("value" :> "1")
         @@ ("timeout" :> "1")),
     Map(("action" :> "write_pin") @@ ("pin" :> "1") @@ ("value" :> "0")
         @@ ("timeout" :> "1")),
     PinCmd("read_pin", "1")}

\* Shared-device scenarios: two connections drive the same pin while their
\* blinks run and pending resets fire.
NextShared ==
    \/ Run
    \/ \E c \in Conns : Accept(c)
    \/ \E c \in Conns, chunk \in SharedChunks : ReadChunk(c, chunk, MaxReads)
    \/ \E c \in Conns : Drain(c)
    \/ \E c \in Conns : BlinkStep(c)
    \/ Tick(MaxBlinkTime)
    \/ \E task \in BagToSet(tasks) : WritePinAfterTimeout(task)

SpecShared == InitBlink /\ [][NextShared]_vars

\* Indicator scenarios: two connections come and go while the idle blink,
\* the connections' blinks and a sleep timer interleave.
NextBlink ==
    \/ Run
    \/ IdleStep
    \/ \E c \in Conns : Accept(c)
    \/ \E c \in Conns, chunk \in BlinkChunks : ReadChunk(c, chunk, MaxChunks)
    \/ \E c \in Conns : Drain(c)
    \/ \E c \in Conns : ReadEof(c)
    \/ \E c \in Conns : IoFails(c)
    \/ \E c \in Conns : BlinkStep(c)
    \/ \E c \in Conns : BlinkCancelled(c)
    \/ Tick(MaxBlinkTime)
    \/ \E tm \in BagToSet(timers) : Sleep(tm)

SpecBlink == InitBlink /\ [][NextBlink]_vars

\* Run-loop scenarios: every way from start-up to the end of __main__, with
\* one connection and the indicator tasks running.
NextRun ==
    \/ ConfigureBlink
    \/ ConfigureFails
    \/ Run
    \/ RunExits
    \/ Teardown
    \/ Cleanup
    \/ IdleStep
    \/ Accept(1)
    \/ ReadChunk(1, Cmd("ping"), MaxChunks)
    \/ Drain(1)
    \/ ReadEof(1)
    \/ BlinkStep(1)
    \/ BlinkCancelled(1)

SpecRun == Init /\ [][NextRun]_vars

\* --------------------------------------------------------------- claims
Served1(c) == conn[c].pc \in {"read", "drain"}

\* a foreground blink has started and has not ended
FgInProgress == \E c \in Conns : blink[c].pc \in {"on", "off"}

LastIs(action) ==
    /\ last.act = "chunk"
    /\ last.chunk.k = "map"
    /\ "action" \in DOMAIN last.chunk.m
    /\ last.chunk.m["action"] = action

\* C1: every chunk a handler reads is answered by exactly one response and
\* leaves the handler serving the connection.
C1_EveryChunkAnswered ==
    last.act = "chunk" =>
        /\ last.out = "resp"
        /\ conn[last.c].pc = "drain"
        /\ Len(conn[last.c].resp) = conn[last.c].nread

\* C2: after a write_pin(pin, v, timeout) that changed the pin, and with no
\* later setup_pin / write_pin for it, read_pin returns v before the timeout
\* has elapsed and 1 - v after it has elapsed.
C2_WriteThenReverts ==
    (LastIs("read_pin") /\ ~last.failed) =>
        \A p \in PinIds :
            (last.chunk.m["pin"] = StrOf(p) /\ wrote[p].on) =>
                /\ now < wrote[p].at => last.resp["value"] = StrOf(wrote[p].v)
                /\ now > wrote[p].at => last.resp["value"] = StrOf(1 - wrote[p].v)

\* the step just taken dispatched write_pin for a set-up pin p that already
\* had the requested value
EqualWrite(p) ==
    /\ last'.act = "chunk"
    /\ last'.chunk.k = "map"
    /\ last'.chunk.m["action"] = "write_pin"
    /\ last'.chunk.m["pin"] = StrOf(p)
    /\ p \in DOMAIN pins
    /\ last'.chunk.m["value"] = StrOf(level[p])

\* C3: a write_pin whose value equals the pin's current value makes no
\* hardware write and schedules no reset: pin levels and pending resets are
\* unchanged.
C3_EqualWriteIsNoOp ==
    [][\A p \in PinIds :
          EqualWrite(p) => /\ level' = level
                           /\ tasks' = tasks
                           /\ \A i \in DOMAIN last'.calls :
                                 last'.calls[i] # "write"]_vars

C3_Witness ==
    /\ LastIs("write_pin")
    /\ ~last.failed
    /\ last.calls = <<"read">>
    /\ tasks # EmptyBag

\* C4: on a connection the k-th response answers the k-th chunk, and a chunk
\* is read only when every earlier response has been written and flushed.
C4_ResponsesInOrder ==
    /\ [](\A c \in Conns :
            /\ \A k \in DOMAIN conn[c].resp : conn[c].resp[k] = k
            /\ Len(conn[c].resp) <= conn[c].nread)
    /\ [][\A c \in Conns :
            conn'[c].nread > conn[c].nread =>
                /\ Len(conn[c].resp) = conn[c].nread
                /\ conn[c].flushed = conn[c].nread]_vars

C4_Witness ==
    \E c \in Conns : conn[c].pc = "read" /\ conn[c].flushed = 3

\* C5: a connection that has ended has had its blink cancelled, and once
\* every connection has ended and the cancellations have been delivered
\* the idle-enable event is set.
C5_EndResumesIdle ==
    /\ \A c \in Conns :
          conn[c].pc = "done" => (blink[c].cancel \/ blink[c].pc = "done")
    /\ (\A c \in Conns : /\ conn[c].pc \in {"none", "done"}
                          /\ blink[c].pc \in {"none", "done"}) => event

C5_Witness ==
    /\ \A c \in Conns : conn[c].pc = "done" /\ blink[c].pc = "done"
    /\ \E c \in Conns : conn[c].end = "ioerror" /\ blink[c].i > 0
    /\ \E c \in Conns : conn[c].end = "exception" /\ blink[c].i > 0
    /\ event

\* C6: the idle cycle is enabled exactly when no foreground blink is in
\* progress.
C6_ExactlyOneMode == event <=> ~FgInProgress

\* C7: while a connection is served its foreground blink is in progress
\* (created, or started and not ended) and, once started, keeps the idle
\* cycle suspended.
C7_ActiveWhileServed ==
    \A c \in Conns :
        Served1(c) => /\ blink[c].pc \in {"new", "on", "off"}
                      /\ blink[c].pc \in {"on", "off"} => ~event

\* C8: while a foreground blink is in progress the idle task performs no
\* led_on and no led_off.
C8_IdleSilentWhileActive ==
    [][FgInProgress =>
          /\ ~(idle # "on" /\ idle' = "on")
          /\ ~(idle = "on" /\ idle' = "off")]_vars

\* C9: when __main__ has ended, by whatever path, the idle blink task (if
\* it was created) is cancelled and the LED is off.
C9_ExitLeavesLedOff ==
    mainpc = "exited" => led = 0 /\ idle \in {"none", "cancelled"}

C9_Witness ==
    /\ mainpc = "exited"
    /\ idle = "cancelled"
    /\ conn[1].end = "cancelled"
    /\ blink[1].i > 0

\* C10: every response to a chunk that parsed as a mapping carries the
\* device's time_received stamp, error responses included.
C10_ErrorKeepsStamp ==
    (last.act = "chunk" /\ last.chunk.k = "map" /\ last.out = "resp") =>
        /\ "time_received" \in DOMAIN last.resp
        /\ last.resp["time_received"] = StrOf(now)

\* the step just taken dispatched a command that parsed as a mapping
Dispatched == last'.act = "chunk" /\ last'.chunk.k = "map"

\* the step just taken left the pins and everything scheduled as they were
DeviceUntouched ==
    /\ pins' = pins
    /\ level' = level
    /\ tasks' = tasks
    /\ timers' = timers
    /\ resets' = resets

\* C11: a command whose action is not in the action table is answered by
\* an error response whose message names that action and points to
\* list_actions; no hardware call is made, and pins and pending resets are
\* unchanged.
C11_UnknownActionRejected ==
    [][(/\ Dispatched
        /\ "action" \in DOMAIN last'.chunk.m
        /\ last'.chunk.m["action"] \notin ActionNames) =>
          /\ last'.out = "resp"
          /\ last'.failed
          /\ last'.resp["exception"] = "ValueError"
          /\ last'.resp["error"] = UnknownActionMsg(last'.chunk.m["action"])
          /\ last'.calls = <<>>
          /\ DeviceUntouched]_vars

C11_Witness ==
    /\ LastIs("soft_reset")
    /\ last.failed
    /\ 1 \in DOMAIN pins
    /\ tasks # EmptyBag

\* C12: read_pin on a pin that is not set up fails with the 'not setup'
\* hardware error; the response is the command as received plus the error
\* pair (so no value produced by the device), and the pin table is
\* unchanged.
C12_ReadUnsetPinFails ==
    [][(/\ Dispatched
        /\ "action" \in DOMAIN last'.chunk.m
        /\ last'.chunk.m["action"] = "read_pin"
        /\ "pin" \in DOMAIN last'.chunk.m
        /\ IsNum(last'.chunk.m["pin"])
        /\ IntOf(last'.chunk.m["pin"]) \notin DOMAIN pins) =>
          /\ last'.out = "resp"
          /\ last'.failed
          /\ last'.resp = ErrorPair(last'.chunk.m, "GPIOPinNotSetupError",
                                    NotSetupMsg(IntOf(last'.chunk.m["pin"])))
          /\ pins' = pins
          /\ level' = level]_vars

C12_Witness ==
    /\ LastIs("read_pin")
    /\ last.failed
    /\ "pin" \in DOMAIN last.chunk.m
    /\ last.chunk.m["pin"] = "2"
    /\ "value" \in DOMAIN last.chunk.m
    /\ last.resp["value"] = "7"
    /\ 1 \in DOMAIN pins
    /\ 2 \notin DOMAIN pins

\* the fields an action requires
Required(action) ==
    CASE action = "setup_pin" -> {"pin", "mode"}
      [] action = "write_pin" -> {"pin", "value", "timeout"}
      [] action = "read_pin" -> {"pin"}
      [] action = "sleep" -> {"time_ms", "deep"}
      [] OTHER -> {}

\* the sequences that list every element of S once
Listings(S) ==
    {q \in [1..Cardinality(S) -> S] : \A x \in S : \E i \in DOMAIN q : q[i] = x}

RECURSIVE Joined(_)
Joined(q) ==
    IF Len(q) = 0 THEN ""
    ELSE IF Len(q) = 1 THEN q[1]
    ELSE q[1] \o ", " \o Joined(Tail(q))

\* the required fields the command of the step just taken lacks
Lacking == Required(last'.chunk.m["action"]) \ DOMAIN last'.chunk.m

\* C13: a setup_pin, write_pin, read_pin or sleep command that lacks
\* required fields is answered by an error whose message lists every
\* missing required field (in some order); no hardware call is made and
\* nothing is scheduled.
C13_AllMissingNamed ==
    [][(/\ Dispatched
        /\ "action" \in DOMAIN last'.chunk.m
        /\ Lacking # {}) =>
          /\ last'.out = "resp"
          /\ last'.failed
          /\ last'.resp["exception"] = "ValueError"
          /\ \E q \in Listings(Lacking) :
                last'.resp["error"] =
                    "incomplete command, missing fields: " \o Joined(q)
          /\ last'.calls = <<>>
          /\ DeviceUntouched]_vars

C13_Witness ==
    /\ LastIs("write_pin")
    /\ last.failed
    /\ DOMAIN last.chunk.m = {"action"}
    /\ setorder = "rev"
    /\ last.resp["error"] =
           "incomplete command, missing fields: timeout, value, pin"
    /\ 1 \in DOMAIN pins
    /\ tasks # EmptyBag

\* the fields an action writes into the command
Outputs(action) ==
    CASE action = "read_pin" -> {"value"}
      [] action = "get_version" -> {"version"}
      [] action = "get_info" -> {"info"}
      [] action = "list_actions" -> {"actions"}
      [] OTHER -> {}

\* the request fields the response has to echo: all but the device's
\* stamp and the outputs of the action
Echoed(m) ==
    DOMAIN m \ ({"time_received"} \cup
                 (IF "action" \in DOMAIN m THEN Outputs(m["action"]) ELSE {}))

\* C14: the response to a command that parsed as a mapping carries every
\* request field that is not an output of the action, with the value the
\* request gave it, on success and on error.
C14_RequestFieldsEchoed ==
    (last.act = "chunk" /\ last.chunk.k = "map" /\ last.out = "resp") =>
        \A f \in Echoed(last.chunk.m) :
            /\ f \in DOMAIN last.resp
            /\ last.resp[f] = last.chunk.m[f]

\* C15: a response carries the error pair (error and exception, always
\* together) exactly when processing of the command failed, whatever
\* fields the request carried.
C15_ErrorPairIffFailed ==
    (last.act = "chunk" /\ last.out = "resp") =>
        /\ ("error" \in DOMAIN last.resp) <=> last.failed
        /\ ("exception" \in DOMAIN last.resp) <=> last.failed

\* action names a peer may try, in alphabetical order
Alphabetical ==
    <<"blink", "get_info", "get_version", "list_actions", "ping", "read_pin",
      "reset", "setup_pin", "sleep", "soft_reset", "write_pin">>

Rank(a) == CHOOSE i \in DOMAIN Alphabetical : Alphabetical[i] = a

\* dispatching a does not end in the unknown-action error
Accepted(a) ==
    Dispatch(Dev, now, "action" :> a).msg # UnknownActionMsg(a)

\* C16: list_actions returns exactly the action names the dispatcher
\* accepts, in sorted order.
C16_ListActionsSorted ==
    (LastIs("list_actions") /\ ~last.failed) =>
        /\ {last.resp["actions"][i] : i \in DOMAIN last.resp["actions"]}
              = {Alphabetical[i] : i \in {j \in DOMAIN Alphabetical :
                                             Accepted(Alphabetical[j])}}
        /\ \A i, j \in DOMAIN last.resp["actions"] :
              i < j => Rank(last.resp["actions"][i])
                         < Rank(last.resp["actions"][j])

\* a device on which nothing has been set up or scheduled
FreshDev == [pins |-> <<>>, level |-> [p \in PinIds |-> 0], tasks |-> EmptyBag,
             timers |-> EmptyBag, resets |-> EmptyBag]

\* a response without the device's stamp
Unstamped(m) == [f \in DOMAIN m \ {"time_received"} |-> m[f]]

\* C17: ping, get_version, get_info, list_actions and read_pin leave the
\* pins and everything scheduled unchanged, however often and in whatever
\* order they are dispatched; the response to ping and to get_version is,
\* apart from the stamp, the one the same command gets from a device on
\* which nothing has happened yet.
C17_QueriesHaveNoEffect ==
    /\ [][(/\ Dispatched
            /\ "action" \in DOMAIN last'.chunk.m
            /\ last'.chunk.m["action"] \in
                  {"ping", "get_version", "get_info", "list_actions",
                   "read_pin"}) => DeviceUntouched]_vars
    /\ []((LastIs("ping") \/ LastIs("get_version")) =>
            /\ last.out = "resp"
            /\ Unstamped(last.resp)
                  = Unstamped(JsonDecorator(FreshDev, 0, last.chunk).resp))

C17_Witness ==
    /\ LastIs("get_version")
    /\ last.resp["version"] = VERSION
    /\ conn[1].nread >= 4
    /\ 1 \in DOMAIN pins
    /\ level[1] = 1
    /\ tasks # EmptyBag
    /\ now > 0

\* the step just taken ended connection c by end of stream or I/O error
Ended(c) ==
    /\ conn[c].pc \in {"read", "drain"}
    /\ conn'[c].pc = "done"
    /\ conn'[c].end \in {"eof", "ioerror"}

\* C18: end of stream or an I/O error stops the handler of that connection
\* and releases it, and nothing else: the listener goes on listening and
\* accepts the connections not opened yet, the other connections and the
\* pins are as they were, and a connection served afterwards reads the pin
\* state the earlier connection left.
C18_EndIsLocal ==
    /\ [][\A c \in Conns :
            Ended(c) => /\ mainpc' = mainpc
                        /\ pins' = pins
                        /\ level' = level
                        /\ \A d \in Conns \ {c} : conn'[d] = conn[d]]_vars
    /\ []((\E c \in Conns : conn[c].end \in {"eof", "ioerror"}) =>
            /\ mainpc = "listening"
            /\ \A d \in Conns : conn[d].pc = "none" => ENABLED Accept(d)
            /\ (LastIs("read_pin") /\ 1 \in DOMAIN pins) =>
                  /\ ~last.failed
                  /\ conn[last.c].pc = "drain"
                  /\ last.resp["value"] = StrOf(level[1]))

C18_Witness ==
    /\ conn[1].end = "ioerror"
    /\ conn[1].nread > 0
    /\ conn[2].pc = "drain"
    /\ conn[2].nread = 1
    /\ LastIs("read_pin")
    /\ ~last.failed
    /\ last.c = 2
    /\ last.resp["value"] = "1"

\* the step just taken dispatched a reset or sleep command that did not fail
PowerAsked ==
    /\ Dispatched
    /\ "action" \in DOMAIN last'.chunk.m
    /\ last'.chunk.m["action"] \in {"reset", "sleep"}
    /\ ~last'.failed

\* the step just taken reset the device or put it to sleep
PowerActed ==
    BagCardinality(timers') + BagCardinality(resets')
        < BagCardinality(timers) + BagCardinality(resets)

\* C19: dispatching reset or sleep only schedules: the device goes on
\* running, the new reset task or timer is due one second later, and the
\* response is written in the same step; the reset or sleep itself happens
\* in a later step, when that second has passed, and with a response
\* written for every command read.
C19_ResetAndSleepDeferred ==
    /\ [][PowerAsked =>
            /\ ~PowerActed
            /\ mainpc' = mainpc /\ event' = event /\ led' = led
            /\ \A x \in BagToSet(resets' (-) resets) : x.at = now + 1
            /\ \A x \in BagToSet(timers' (-) timers) : x.at = now + 1
            /\ BagCardinality(timers') + BagCardinality(resets')
                  = BagCardinality(timers) + BagCardinality(resets) + 1
            /\ conn'[last'.c].resp
                  = Append(conn[last'.c].resp, conn[last'.c].nread + 1)]_vars
    /\ [][PowerActed =>
            /\ last'.act # "chunk"
            /\ \/ \E x \in BagToSet(resets) : x.at <= now
               \/ \E x \in BagToSet(timers) : x.at <= now
            /\ \A c \in Conns :
                  conn[c].pc \in {"read", "drain"} =>
                      Len(conn[c].resp) = conn[c].nread]_vars

C19_Witness ==
    /\ \E x \in BagToSet(resets) : x.at <= now
    /\ \E x \in BagToSet(timers) : x.at <= now /\ x.deep = 0
    /\ conn[1].pc = "read"
    /\ conn[1].flushed = 2
    /\ mainpc = "listening"

\* send_commands has returned n entries, entry i in slot i, each error
\* entry tagged with the name of what failed, and sendall was called for
\* every command in turn
ListComplete ==
    /\ Len(cli.responses) = Len(cli.cmds)
    /\ Len(cli.sent) = Len(cli.cmds)
    /\ \A i \in DOMAIN cli.responses :
          /\ cli.responses[i].slot = i
          /\ cli.sent[i].i = i
          /\ cli.responses[i].kind = "error" =>
                /\ cli.responses[i].cause
                      \in {"timeout", "reset", "sendfails", "badjson",
                           "badutf8", "notmap"}
                /\ cli.responses[i].exception = ExcName(cli.responses[i].cause)

Outstanding == Len(cli.pending) + Len(cli.inbox)

\* C21: at most one request is outstanding on the connection at any time:
\* no command is sent while an earlier request has not round-tripped.
C21_OneOutstanding == Outstanding <= 1

\* C22: every attempt of poll_command_response sends the command to the
\* device and validates the device's response to it; the call returns
\* true at the first attempt validate accepts and false once the timeout
\* has elapsed, so the result is true exactly when validate accepted the
\* response of some attempt.
C22_PollValidatesDeviceResponse ==
    cli.pc = "polled" =>
        /\ Len(cli.sent) = cli.attempts
        /\ cli.result <=> \E i \in DOMAIN cli.responses :
                              Validate(cli.validate, cli.responses[i])
        /\ ~cli.result => cli.elapsed >= cli.timeout

\* C23: with a validator that never accepts, poll_command_response
\* returns false only when the timeout has elapsed, and has made at least
\* floor(timeout / interval) attempts by then.
C23_PollAttemptsFloor ==
    (cli.pc = "polled" /\ cli.validate = "never") =>
        /\ ~cli.result
        /\ cli.elapsed >= cli.timeout
        /\ cli.attempts >= cli.timeout \div cli.dt

\* the step just taken dispatched a write_pin that wrote the pin
WroteNow ==
    /\ Dispatched
    /\ "action" \in DOMAIN last'.chunk.m
    /\ last'.chunk.m["action"] = "write_pin"
    /\ last'.calls = <<"read", "write">>

\* C24: a write_pin that schedules a reset is answered in the same step,
\* without time passing, the reset being due only after the timeout; and
\* while resets are pending the handler can read and answer a command or
\* flush, every reset that is due can fire, and the connection's blink and
\* the idle blink can take their next step.
C24_ResetDoesNotBlock ==
    /\ [][WroteNow =>
            /\ now' = now
            /\ conn'[last'.c].resp
                  = Append(conn[last'.c].resp, conn[last'.c].nread + 1)
            /\ \E x \in BagToSet(tasks') :
                  /\ tasks' = tasks (+) SetToBag({x})
                  /\ x.at = now + IntOf(last'.chunk.m["timeout"])
                  /\ x.at > now]_vars
    /\ [](tasks # EmptyBag =>
            /\ (LoopRuns /\ conn[1].pc = "read" /\ conn[1].nread < MaxSched)
                  => ENABLED ReadChunk(1, Cmd("ping"), MaxSched)
            /\ (LoopRuns /\ conn[1].pc = "drain") => ENABLED Drain(1)
            /\ \A task \in Due(tasks) :
                  LoopRuns => ENABLED WritePinAfterTimeout(task)
            /\ (LoopRuns /\ blink[1].pc \in {"new", "on", "off"}
                          /\ ~blink[1].cancel) => ENABLED BlinkStep(1)
            /\ (LoopRuns /\ idle \in {"new", "off", "woken", "on"})
                  => ENABLED IdleStep)

C24_Witness ==
    /\ BagCardinality(tasks) = 2
    /\ Due(tasks) # {}
    /\ \E x \in BagToSet(tasks) : x.at > now
    /\ LastIs("ping")
    /\ conn[1].pc = "drain"
    /\ blink[1].pc = "on"
    /\ idle = "blocked"
    /\ now > 0

\* the step just taken was the firing of the pending reset x
Fired(x) ==
    /\ BagIn(x, tasks)
    /\ tasks' = tasks (-) SetToBag({x})
    /\ last'.act # "chunk"

\* C25: a pending reset that changes a pin is the reset of the most recent
\* write_pin that wrote that pin: once a later write_pin has changed the
\* pin, an earlier pending reset no longer changes it.
C25_LaterWriteSupersedes ==
    [][\A x \in BagToSet(tasks) :
          (/\ Fired(x)
           /\ level'[x.pin] # level[x.pin]
           /\ wrote[x.pin].on) =>
              /\ x.at = wrote[x.pin].at
              /\ x.value = 1 - wrote[x.pin].v]_vars

\* C26: the handling of one command is one uninterrupted step: within it no
\* time passes, no pending reset fires, no blink task and no other
\* connection moves, and a write_pin writes on the value it has just read.
C26_DispatchAtomic ==
    [][Dispatched =>
          /\ now' = now /\ idle' = idle /\ led' = led /\ event' = event
          /\ \A x \in BagToSet(tasks) : CopiesIn(x, tasks') >= CopiesIn(x, tasks)
          /\ \A c \in Conns \ {last'.c} : conn'[c] = conn[c] /\ blink'[c] = blink[c]
          /\ blink'[last'.c].pc = blink[last'.c].pc
          /\ blink'[last'.c].i = blink[last'.c].i
          /\ WroteNow =>
                /\ level[IntOf(last'.chunk.m["pin"])] # IntOf(last'.chunk.m["value"])
                /\ level' = [level EXCEPT ![IntOf(last'.chunk.m["pin"])] =
                                             IntOf(last'.chunk.m["value"])]
                /\ tasks' = tasks (+) SetToBag({[pin |-> IntOf(last'.chunk.m["pin"]),
                                                 value |-> 1 - IntOf(last'.chunk.m["value"]),
                                                 at |-> now + IntOf(last'.chunk.m["timeout"])]})]_vars

\* a write_pin was handled for one connection while a reset was due, the
\* other connection had a response to flush and both blinks were running
C26_Witness ==
    /\ LastIs("write_pin")
    /\ last.calls = <<"read", "write">>
    /\ Due(tasks) # {}
    /\ \E c \in Conns \ {last.c} : conn[c].pc = "drain" /\ blink[c].pc = "on"
    /\ blink[last.c].pc \in {"on", "off"}

\* C27: after a write_pin(pin, v, timeout) answered without error the pin
\* holds v until the timeout has elapsed, unless another command naming
\* the pin is dispatched in between.
C27_AnsweredWriteHolds ==
    \A p \in PinIds :
        (wrote[p].held /\ now < wrote[p].until) => level[p] = wrote[p].hv

\* C28: a pending reset leaves the schedule only by firing, one firing at
\* a time, not before its delay has elapsed, and then writes its value; a
\* reset that is due can fire, and the clock does not pass it, whether the
\* connection that issued it is open, closed by the peer or failed.
C28_ResetFiresOnce ==
    /\ [][\A x \in BagToSet(tasks) :
             CopiesIn(x, tasks') < CopiesIn(x, tasks) =>
                 /\ tasks' = tasks (-) SetToBag({x})
                 /\ x.at <= now
                 /\ now' = now
                 /\ conn' = conn
                 /\ x.pin \in DOMAIN pins => level'[x.pin] = x.value]_vars
    /\ [](\A x \in Due(tasks) :
             LoopRuns => /\ ENABLED WritePinAfterTimeout(x)
                         /\ ~ENABLED Tick(MaxTime))

\* after the connection has ended, the reset of the later write_pin has
\* fired and the reset of the earlier one is still to come
C28_Witness ==
    /\ conn[1].pc = "done"
    /\ conn[1].end \in {"eof", "ioerror"}
    /\ wrote[1].on /\ now >= wrote[1].at /\ level[1] = 1 - wrote[1].v
    /\ BagCardinality(tasks) = 1
    /\ \E x \in BagToSet(tasks) : x.value = wrote[1].v /\ x.at > now

\* C29: a command whose response is an error leaves the set-up pins, their
\* modes and values and everything scheduled exactly as they were.
C29_ErrorLeavesDevice ==
    [][(Dispatched /\ last'.out = "resp" /\ last'.failed) => DeviceUntouched]_vars

\* C30: in the list send_commands builds, every entry that is not a client
\* error is the device's response to the command of its own slot.
C30_SlotHoldsOwnResponse ==
    \A i \in DOMAIN cli.responses :
        cli.responses[i].kind = "response" =>
            /\ cli.responses[i].slot = i
            /\ cli.responses[i].of = i

====
